---------------------------- MODULE Spec2Model ----------------------------
(***************************************************************************)
(* A model of gfwlist2x.py: the GfwList class that fetches a base64        *)
(* encoded AutoProxy list, extracts the domains of its rules line by line, *)
(* adds two hard-coded domain lists and writes the result to a file.       *)
(*                                                                         *)
(* Text is modelled by TLA+ strings; Ch(s, i) is the i-th character.       *)
(* Lines never hold a line terminator: they are what str.splitlines()      *)
(* returns, and the line-level specification draws them the same way.      *)
(***************************************************************************)
EXTENDS Integers, Sequences, FiniteSets, TLC

VARIABLES
    pc,            \* position of the caller: which call is next / how it ended
    domains,       \* self.domains
    out,           \* what the call in progress or just ended printed
    arg,           \* the argument of the call in progress or just ended
    ret,           \* what the last call returned
    old_domains,   \* self.domains when the last call started
    download,      \* run(download=...)
    gfwlist_fname, \* run(gfwlist_fname=...)
    format,        \* run(format=...)
    gfwlist_file,  \* contents of the file gfwlist_fname names
    url_i,         \* fetch: index in URLs of the next mirror to try
    contacted,     \* fetch: the mirrors urlopen was called for, in order
    answers,       \* fetch: what each contacted mirror answered
    data,          \* run: the local variable data
    output_file    \* contents of the file output names

vars == <<pc, domains, out, arg, ret, old_domains, download,
          gfwlist_fname, format, gfwlist_file, url_i, contacted, answers,
          data, output_file>>

-----------------------------------------------------------------------------
(* Bounds of the model. *)

\* longest body of a generated line, before its head, scheme and tail
MaxLen == 3
\* most lines of a generated document
MaxLines == 2

-----------------------------------------------------------------------------
(* Strings. *)

None == "<None>"
Absent == "<no file>"
\* the file output names, before anything is written to it
NoFile == [written |-> FALSE, head |-> <<>>, body |-> {}, tail |-> ""]

Ch(s, i) == IF i \in 1..Len(s) THEN SubSeq(s, i, i) ELSE ""

\* str.startswith
StartsWith(s, p) == Len(p) <= Len(s) /\ SubSeq(s, 1, Len(p)) = p

\* the literal p stands in s at position i
At(s, i, p) == i >= 1 /\ i + Len(p) - 1 <= Len(s)
               /\ SubSeq(s, i, i + Len(p) - 1) = p

Lower == {"a", "b", "c", "d", "e", "f", "g", "h", "i", "j", "k", "l", "m",
          "n", "o", "p", "q", "r", "s", "t", "u", "v", "w", "x", "y", "z"}
Upper == {"A", "B", "C", "D", "E", "F", "G", "H", "I", "J", "K", "L", "M",
          "N", "O", "P", "Q", "R", "S", "T", "U", "V", "W", "X", "Y", "Z"}
\* [0-9]
Digit == {"0", "1", "2", "3", "4", "5", "6", "7", "8", "9"}
\* [a-zA-Z0-9]
AlNum == Lower \cup Upper \cup Digit
\* [-a-zA-Z0-9]
LabelCh == AlNum \cup {"-"}

\* every character of s[i..j] is in class C
AllIn(s, i, j, C) == \A k \in i..j : Ch(s, k) \in C

\* where the longest run of class C characters starting at i ends (i-1: none)
RECURSIVE RunEnd(_, _, _)
RunEnd(s, i, C) == IF Ch(s, i) \in C THEN RunEnd(s, i + 1, C) ELSE i - 1

-----------------------------------------------------------------------------
(* The patterns of GfwList, each by the matches re finds. *)

\* [0-9]+\.[0-9]+ ... with n digit runs matches at position i
RECURSIVE OctetsAt(_, _, _)
OctetsAt(s, i, n) ==
    IF n = 1 THEN Ch(s, i) \in Digit
    ELSE LET e == RunEnd(s, i, Digit)
         IN  e >= i /\ Ch(s, e + 1) = "." /\ OctetsAt(s, e + 2, n - 1)

\* (https?://){0,1}[0-9]+\.[0-9]+\.[0-9]+\.[0-9]+ matches at position i
IPv4At(s, i) ==
    \/ OctetsAt(s, i, 4)
    \/ At(s, i, "http://") /\ OctetsAt(s, i + 7, 4)
    \/ At(s, i, "https://") /\ OctetsAt(s, i + 8, 4)

\* a variant: the bracket alternative anchored like its neighbours, ^\[
ignore_pattern_BracketAtStart(line) ==
    \/ At(line, 1, "!")
    \/ At(line, 1, "[")
    \/ At(line, 1, "@@")
    \/ \E i \in 1..Len(line) : IPv4At(line, i)

\* ignore_pattern.search(line) is not None
ignore_pattern(line) ==
    \/ At(line, 1, "!")
    \/ \E i \in 1..Len(line) : Ch(line, i) = "["
    \/ At(line, 1, "@@")
    \/ \E i \in 1..Len(line) : IPv4At(line, i)

\* a variant: the scheme group without its s?, ^(\|\|?)?(http://)?
head_filter_pattern_HttpOnly(line) ==
    LET bars == IF At(line, 1, "||") THEN 2
                ELSE IF At(line, 1, "|") THEN 1 ELSE 0
        scheme == IF At(line, bars + 1, "http://") THEN 7 ELSE 0
    IN  SubSeq(line, bars + scheme + 1, Len(line))

\* head_filter_pattern.sub('', line): ^ matches at the start only, both
\* groups are optional and greedy
head_filter_pattern(line) ==
    LET bars == IF At(line, 1, "||") THEN 2
                ELSE IF At(line, 1, "|") THEN 1 ELSE 0
        scheme == IF At(line, bars + 1, "https://") THEN 8
                  ELSE IF At(line, bars + 1, "http://") THEN 7 ELSE 0
    IN  SubSeq(line, bars + scheme + 1, Len(line))

\* a variant: the pattern without its first alternative, %2F.*$
tail_filter_pattern_PercentOnly(line) ==
    LET cut == {i \in 1..Len(line) : At(line, i, "%2F")}
    IN  IF cut = {} THEN line
        ELSE SubSeq(line, 1, (CHOOSE i \in cut : \A k \in cut : i <= k) - 1)

\* tail_filter_pattern.sub('', line): the leftmost / or %2F and all after it
tail_filter_pattern(line) ==
    LET cut == {i \in 1..Len(line) : Ch(line, i) = "/" \/ At(line, i, "%2F")}
    IN  IF cut = {} THEN line
        ELSE SubSeq(line, 1, (CHOOSE i \in cut : \A k \in cut : i <= k) - 1)

\* [a-zA-Z0-9][-a-zA-Z0-9]* matches exactly s[i..j]
IsLabel(s, i, j) == i <= j /\ Ch(s, i) \in AlNum /\ AllIn(s, i + 1, j, LabelCh)

\* label(\.label)* matches exactly s[i..j]
RECURSIVE IsLabels(_, _, _)
IsLabels(s, i, j) ==
    \/ IsLabel(s, i, j)
    \/ \E k \in (i + 1)..(j - 1) :
          IsLabel(s, i, k - 1) /\ Ch(s, k) = "." /\ IsLabels(s, k + 1, j)

\* [a-zA-Z0-9][-a-zA-Z0-9]*(\.[a-zA-Z0-9][-a-zA-Z0-9]*)+ matches exactly s[i..j]
IsDomain(s, i, j) ==
    \E k \in (i + 1)..(j - 1) :
        IsLabel(s, i, k - 1) /\ Ch(s, k) = "." /\ IsLabels(s, k + 1, j)

\* domain_pattern.search(line) is not None
domain_pattern(line) ==
    \E i \in 1..Len(line) : \E j \in i..Len(line) : IsDomain(line, i, j)

\* [a-zA-Z0-9]*\*[-a-zA-Z0-9]* matches exactly s[i..j]
IsWildSegment(s, i, j) ==
    \E k \in i..j : /\ Ch(s, k) = "*"
                    /\ AllIn(s, i, k - 1, AlNum)
                    /\ AllIn(s, k + 1, j, LabelCh)

\* (([a-zA-Z0-9]*\*[-a-zA-Z0-9]*)?(\.))? matches exactly s[1..j]
IsWildHead(s, j) ==
    j = 0 \/ (Ch(s, j) = "." /\ (j = 1 \/ IsWildSegment(s, 1, j - 1)))

\* (\*[a-zA-Z0-9]*)?$ matches exactly s[i..Len(s)]
IsWildTail(s, i) ==
    i = Len(s) + 1 \/ (Ch(s, i) = "*" /\ AllIn(s, i + 1, Len(s), AlNum))

\* the ways wildcard_pattern matches the whole of line: where group 4 lies
WildcardMatches(line) ==
    {m \in (1..Len(line)) \X (1..Len(line)) :
        /\ IsWildHead(line, m[1] - 1)
        /\ IsDomain(line, m[1], m[2])
        /\ IsWildTail(line, m[2] + 1)}

\* wildcard_pattern.search(line) is not None
wildcard_pattern(line) == WildcardMatches(line) # {}

\* a variant: the whole match, group(0), in place of groups()[3]
WildcardGroup3_WholeMatch(line) == line

\* wildcard_pattern.search(line).groups()[3]
WildcardGroup3(line) ==
    LET m == CHOOSE m \in WildcardMatches(line) : TRUE
    IN  SubSeq(line, m[1], m[2])

-----------------------------------------------------------------------------
(* GfwList._parse_line: the domain set and the printed lines after the     *)
(* call, and whether the call raised.                                      *)

Manual(line) == <<"please add domain manually for ignored regex rule", line, "">>
RegexInfo(line, domain) == <<"regex rule", line, domain>>

parse_line(line, ds, o) ==
    LET is_regex_rule == StartsWith(line, "/")
        discard == [domains |-> ds,
                    out |-> IF is_regex_rule THEN Append(o, Manual(line)) ELSE o,
                    raised |-> FALSE]
        stripped == tail_filter_pattern(head_filter_pattern(line))
    IN  IF ignore_pattern(line) THEN discard
        ELSE IF ~domain_pattern(stripped) THEN discard
        ELSE IF ~wildcard_pattern(stripped)
             \* None.groups(): AttributeError
             THEN [domains |-> ds, out |-> o, raised |-> TRUE]
        ELSE LET domain == WildcardGroup3(stripped)
             IN  [domains |-> ds \cup {domain},
                  out |-> IF is_regex_rule
                          THEN Append(o, RegexInfo(stripped, domain)) ELSE o,
                  raised |-> FALSE]

-----------------------------------------------------------------------------
(* The lines the line-level specification calls _parse_line with: a body   *)
(* of at most MaxLen characters (or one of a few longer ones) between a    *)
(* head, a scheme and a tail.                                              *)

BodyChars == {"a", "1", ".", "-", "*"}

RECURSIVE Strings(_, _)
Strings(C, n) ==
    IF n = 0 THEN {""}
    ELSE LET shorter == Strings(C, n - 1)
         IN  shorter \cup {s \o c : s \in shorter, c \in C}

LongBodies == {"1.1.1.1", "a.1.11.1.1", "1.1.1.a", "a.b.c", "a-1.b-", "xn--a.b.c1"}

Heads == {"", "|", "||", "!", "@@", "/", "*."}
Schemes == {"", "http://", "https://"}
Tails == {"", "/a.b", "%2Fa", "[", ":1", "*"}

Bodies == Strings(BodyChars, MaxLen) \cup LongBodies

Lines == {h \o s \o b \o t : h \in Heads, s \in Schemes, b \in Bodies, t \in Tails}

\* domain sets an earlier call can have left
StartDomains == {{}, {"a.a"}}

-----------------------------------------------------------------------------
(* The line-level specification: one call of _parse_line on a fresh or a   *)
(* used GfwList.                                                           *)

RunIdle ==
    /\ download = FALSE /\ gfwlist_fname = None /\ format = "raw"
    /\ gfwlist_file = Absent /\ url_i = 1 /\ contacted = <<>>
    /\ answers = <<>> /\ data = None /\ output_file = NoFile

RunVars == <<download, gfwlist_fname, format, gfwlist_file, url_i, contacted,
             answers, data, output_file>>

InitLine ==
    /\ pc = "parse_line"
    /\ arg \in Lines
    /\ domains \in StartDomains
    /\ old_domains = domains
    /\ out = <<>>
    /\ ret = None
    /\ RunIdle

CallParseLine ==
    /\ pc = "parse_line"
    /\ LET r == parse_line(arg, domains, <<>>)
       IN  /\ domains' = r.domains
           /\ out' = r.out
           /\ pc' = IF r.raised THEN "parse_line raised" ELSE "parse_line returned"
    /\ old_domains' = domains
    /\ UNCHANGED <<arg, ret, RunVars>>

NextLine == CallParseLine

SpecLine == InitLine /\ [][NextLine]_vars

-----------------------------------------------------------------------------
(* GfwList.parse and GfwList.add_extra_domains.                            *)

False == "False"
Msg(m) == <<m, "", "">>

\* str.splitlines, for text whose only line terminator is \n
RECURSIVE splitlines(_)
splitlines(text) ==
    IF text = "" THEN <<>>
    ELSE LET nl == {i \in 1..Len(text) : Ch(text, i) = "\n"}
         IN  IF nl = {} THEN <<text>>
             ELSE LET i == CHOOSE i \in nl : \A k \in nl : i <= k
                  IN  <<SubSeq(text, 1, i - 1)>>
                      \o splitlines(SubSeq(text, i + 1, Len(text)))

\* the loop of parse over lines[k..]: stops at the first line that raises
RECURSIVE ParseLines(_, _, _, _)
ParseLines(lines, k, ds, o) ==
    IF k > Len(lines) THEN [domains |-> ds, out |-> o, ret |-> None, raised |-> FALSE]
    ELSE LET r == parse_line(lines[k], ds, o)
         IN  IF r.raised
             THEN [domains |-> r.domains, out |-> r.out, ret |-> None, raised |-> TRUE]
             ELSE ParseLines(lines, k + 1, r.domains, r.out)

\* a variant: parse without the test of the first line
parse_NoMarkerCheck(text, ds) ==
    LET lines == splitlines(text)
    IN  IF Len(lines) = 0
        THEN [domains |-> ds, out |-> <<Msg("gfwlist is empty")>>,
              ret |-> False, raised |-> FALSE]
        ELSE ParseLines(lines, 1, ds, <<>>)

parse(text, ds) ==
    LET lines == splitlines(text)
    IN  IF Len(lines) = 0
        THEN [domains |-> ds, out |-> <<Msg("gfwlist is empty")>>,
              ret |-> False, raised |-> FALSE]
        ELSE IF ~StartsWith(lines[1], "[AutoProxy")
        THEN [domains |-> ds, out |-> <<Msg("gfwlist is not in AutoProxy format")>>,
              ret |-> False, raised |-> FALSE]
        ELSE ParseLines(lines, 1, ds, <<>>)

GoogleDomains ==
    {"google.com", "google.ad", "google.ae", "google.com.af", "google.com.ag",
     "google.com.ai", "google.al", "google.am", "google.co.ao",
     "google.com.ar", "google.as", "google.at", "google.com.au", "google.az",
     "google.ba", "google.com.bd", "google.be", "google.bf", "google.bg",
     "google.com.bh", "google.bi", "google.bj", "google.com.bn",
     "google.com.bo", "google.com.br", "google.bs", "google.bt",
     "google.co.bw", "google.by", "google.com.bz", "google.ca", "google.cd",
     "google.cf", "google.cg", "google.ch", "google.ci", "google.co.ck",
     "google.cl", "google.cm", "google.cn", "google.com.co", "google.co.cr",
     "google.com.cu", "google.cv", "google.com.cy", "google.cz", "google.de",
     "google.dj", "google.dk", "google.dm", "google.com.do", "google.dz",
     "google.com.ec", "google.ee", "google.com.eg", "google.es",
     "google.com.et", "google.fi", "google.com.fj", "google.fm", "google.fr",
     "google.ga", "google.ge", "google.gg", "google.com.gh", "google.com.gi",
     "google.gl", "google.gm", "google.gp", "google.gr", "google.com.gt",
     "google.gy", "google.com.hk", "google.hn", "google.hr", "google.ht",
     "google.hu", "google.co.id", "google.ie", "google.co.il", "google.im",
     "google.co.in", "google.iq", "google.is", "google.it", "google.je",
     "google.com.jm", "google.jo", "google.co.jp", "google.co.ke",
     "google.com.kh", "google.ki", "google.kg", "google.co.kr",
     "google.com.kw", "google.kz", "google.la", "google.com.lb", "google.li",
     "google.lk", "google.co.ls", "google.lt", "google.lu", "google.lv",
     "google.com.ly", "google.co.ma", "google.md", "google.me", "google.mg",
     "google.mk", "google.ml", "google.com.mm", "google.mn", "google.ms",
     "google.com.mt", "google.mu", "google.mv", "google.mw", "google.com.mx",
     "google.com.my", "google.co.mz", "google.com.na", "google.com.nf",
     "google.com.ng", "google.com.ni", "google.ne", "google.nl", "google.no",
     "google.com.np", "google.nr", "google.nu", "google.co.nz",
     "google.com.om", "google.com.pa", "google.com.pe", "google.com.pg",
     "google.com.ph", "google.com.pk", "google.pl", "google.pn",
     "google.com.pr", "google.ps", "google.pt", "google.com.py",
     "google.com.qa", "google.ro", "google.ru", "google.rw", "google.com.sa",
     "google.com.sb", "google.sc", "google.se", "google.com.sg", "google.sh",
     "google.si", "google.sk", "google.com.sl", "google.sn", "google.so",
     "google.sm", "google.sr", "google.st", "google.com.sv", "google.td",
     "google.tg", "google.co.th", "google.com.tj", "google.tk", "google.tl",
     "google.tm", "google.tn", "google.to", "google.com.tr", "google.tt",
     "google.com.tw", "google.co.tz", "google.com.ua", "google.co.ug",
     "google.co.uk", "google.com.uy", "google.co.uz", "google.com.vc",
     "google.co.ve", "google.vg", "google.co.vi", "google.com.vn",
     "google.vu", "google.ws", "google.rs", "google.co.za", "google.co.zm",
     "google.co.zw", "google.cat"}

BlogspotDomains ==
    {"blogspot.ca", "blogspot.co.uk", "blogspot.com", "blogspot.com.ar",
     "blogspot.com.au", "blogspot.com.br", "blogspot.com.by",
     "blogspot.com.co", "blogspot.com.cy", "blogspot.com.ee",
     "blogspot.com.eg", "blogspot.com.es", "blogspot.com.mt",
     "blogspot.com.ng", "blogspot.com.tr", "blogspot.com.uy", "blogspot.de",
     "blogspot.gr", "blogspot.in", "blogspot.mx", "blogspot.ch",
     "blogspot.fr", "blogspot.ie", "blogspot.it", "blogspot.pt",
     "blogspot.ro", "blogspot.sg", "blogspot.be", "blogspot.no",
     "blogspot.se", "blogspot.jp", "blogspot.in", "blogspot.ae",
     "blogspot.al", "blogspot.am", "blogspot.ba", "blogspot.bg",
     "blogspot.ch", "blogspot.cl", "blogspot.cz", "blogspot.dk",
     "blogspot.fi", "blogspot.gr", "blogspot.hk", "blogspot.hr",
     "blogspot.hu", "blogspot.ie", "blogspot.is", "blogspot.kr",
     "blogspot.li", "blogspot.lt", "blogspot.lu", "blogspot.md",
     "blogspot.mk", "blogspot.my", "blogspot.nl", "blogspot.no",
     "blogspot.pe", "blogspot.qa", "blogspot.ro", "blogspot.ru",
     "blogspot.se", "blogspot.sg", "blogspot.si", "blogspot.sk",
     "blogspot.sn", "blogspot.tw", "blogspot.ug", "blogspot.cat"}

\* a variant: the domain set assigned where the code updates it
add_extra_domains_Assign(ds) ==
    GoogleDomains \cup BlogspotDomains \cup {"twimg.edgesuite.net"}

add_extra_domains(ds) ==
    ds \cup GoogleDomains \cup BlogspotDomains \cup {"twimg.edgesuite.net"}

ExtraOut == <<Msg("adding google domains"), Msg("add blogspot domains"),
              Msg("add twimg.edgesuite.net")>>

-----------------------------------------------------------------------------
(* The documents parse is called with: at most MaxLines lines of DocLines, *)
(* each ended by a newline, and one longer document.                       *)

DocLines == {"[AutoProxy 0.2.9]", "||a.b/x", "*.c.d", "a.b:80", ""}

RECURSIVE Texts(_)
Texts(n) ==
    IF n = 0 THEN {""}
    ELSE {""} \cup {l \o "\n" \o t : l \in DocLines, t \in Texts(n - 1)}

LongDocs == {"||a.b/x\n/a.b/\na.b:80\n",
             "[AutoProxy 0.2.9]\n||a.b/x\na.b:80\n*.c.d\n",
             "[AutoProxy 0.2.9]\n/a.b/\n|https://e-1.f.g%2Fx\n1.2.3.4\n!h.i"}

Docs == Texts(MaxLines) \cup LongDocs

-----------------------------------------------------------------------------
(* The specification of one GfwList object: parse and add_extra_domains    *)
(* called in any order, any number of times. A caller that catches what    *)
(* parse raised can go on using the object.                                *)

Init ==
    /\ pc = "idle"
    /\ arg = None
    /\ domains = {}
    /\ old_domains = {}
    /\ out = <<>>
    /\ ret = None
    /\ RunIdle

Ready == pc \in {"idle", "parse returned", "parse raised",
                 "add_extra_domains returned"}

CallParse ==
    /\ Ready
    /\ \E text \in Docs :
          LET r == parse(text, domains)
          IN  /\ arg' = text
              /\ domains' = r.domains
              /\ out' = r.out
              /\ ret' = r.ret
              /\ pc' = IF r.raised THEN "parse raised" ELSE "parse returned"
    /\ old_domains' = domains
    /\ UNCHANGED RunVars

CallAddExtraDomains ==
    /\ Ready
    /\ arg' = None
    /\ domains' = add_extra_domains(domains)
    /\ out' = ExtraOut
    /\ ret' = None
    /\ pc' = "add_extra_domains returned"
    /\ old_domains' = domains
    /\ UNCHANGED RunVars

Next == CallParse \/ CallAddExtraDomains

Spec == Init /\ [][Next]_vars

-----------------------------------------------------------------------------
(* Fetching: GfwList.URLs, _fetch_url and the loop of fetch.               *)

URLs == <<"https://pagure.io/gfwlist/raw/master/f/gfwlist.txt",
          "http://repo.or.cz/gfwlist.git/blob_plain/HEAD:/gfwlist.txt",
          "https://bitbucket.org/gfwlist/gfwlist/raw/HEAD/gfwlist.txt",
          "https://gitlab.com/gfwlist/gfwlist/raw/master/gfwlist.txt",
          "https://git.tuxfamily.org/gfwlist/gfwlist.git/plain/gfwlist.txt",
          "https://raw.githubusercontent.com/gfwlist/gfwlist/master/gfwlist.txt">>

\* urlopen or read raised
Raise == "<raise>"

\* what a mirror can answer: an exception, no bytes, or base64 text of
\*   "[AutoProxy 0.2.9]\n||a.b/x\n*.c.d\n"      a list
\*   "||a.b/x\n"                                a list without its first line
\*   "[AutoProxy 0.2.9]\na.b:80\n"              a list with a host:port rule
\*   a truncated encoding, and the encoding of the lone byte 0x80
Payloads == {"W0F1dG9Qcm94eSAwLjIuOV0KfHxhLmIveAoqLmMuZAo=",
             "fHxhLmIveAo=",
             "W0F1dG9Qcm94eSAwLjIuOV0KYS5iOjgwCg==",
             "W0F1dG9Qcm94eQ",
             "gA=="}

Answers == {Raise, ""} \cup Payloads

\* bool(x) for a str, a bytes or None
Truthy(x) == x \notin {None, ""}

\* _fetch_url: the data read, None when anything was raised
fetch_url(answer) == IF answer = Raise THEN None ELSE answer

FetchUrlOut(url, answer) ==
    IF answer = Raise
    THEN <<Msg("downloding gfwlist from " \o url), Msg("download " \o url \o " failed")>>
    ELSE <<Msg("downloding gfwlist from " \o url)>>

\* a variant: "if data is not None" where the code has "if data"
fetch_returns_NotNone(d) == d # None

\* one turn of the loop of fetch: return data, or go on with the next url
fetch_returns(d) == Truthy(d)

-----------------------------------------------------------------------------
(* base64.b64decode(data).decode('utf-8')                                  *)

B64Alphabet == "ABCDEFGHIJKLMNOPQRSTUVWXYZabcdefghijklmnopqrstuvwxyz0123456789+/"

IsB64(c) == \E i \in 1..Len(B64Alphabet) : Ch(B64Alphabet, i) = c
B64Value(c) == (CHOOSE i \in 1..Len(B64Alphabet) : Ch(B64Alphabet, i) = c) - 1

B64Error == <<-1>>

\* binascii.a2b_base64 without strict_mode: characters outside the alphabet
\* are skipped, a complete pad ends the input, a partial quad is an error
RECURSIVE a2b_base64(_, _, _, _, _, _)
a2b_base64(s, i, quad_pos, pads, leftchar, bin) ==
    IF i > Len(s) THEN (IF quad_pos # 0 THEN B64Error ELSE bin)
    ELSE LET c == Ch(s, i)
             v == B64Value(c)
         IN  IF c = "="
             THEN IF quad_pos >= 2 /\ quad_pos + pads + 1 >= 4 THEN bin
                  ELSE a2b_base64(s, i + 1, quad_pos,
                                  IF quad_pos >= 2 THEN pads + 1 ELSE pads,
                                  leftchar, bin)
             ELSE IF ~IsB64(c)
             THEN a2b_base64(s, i + 1, quad_pos, pads, leftchar, bin)
             ELSE CASE quad_pos = 0 ->
                         a2b_base64(s, i + 1, 1, 0, v, bin)
                    [] quad_pos = 1 ->
                         a2b_base64(s, i + 1, 2, 0, v % 16,
                                    Append(bin, leftchar * 4 + v \div 16))
                    [] quad_pos = 2 ->
                         a2b_base64(s, i + 1, 3, 0, v % 4,
                                    Append(bin, leftchar * 16 + v \div 4))
                    [] quad_pos = 3 ->
                         a2b_base64(s, i + 1, 0, 0, 0,
                                    Append(bin, leftchar * 64 + v))

b64decode(s) == a2b_base64(s, 1, 0, 0, 0, <<>>)

\* the printable ASCII characters 32..95 and 97..126 (a string cannot hold
\* the grave accent, 96, which no text of the model has)
Printable == " !\"#$%&'()*+,-./0123456789:;<=>?@ABCDEFGHIJKLMNOPQRSTUVWXYZ[\\]^_"
PrintableLow == "abcdefghijklmnopqrstuvwxyz{|}~"

\* the character of an ASCII code: the newline and the printable ones
Chr(b) == CASE b = 10 -> "\n"
            [] b \in 32..95 -> Ch(Printable, b - 31)
            [] b \in 97..126 -> Ch(PrintableLow, b - 96)

\* bytes 0x80..0xC1 and 0xF5..0xFF start no UTF-8 sequence
BadUtf8(bin) == \E k \in 1..Len(bin) : bin[k] \in (128..193) \cup (245..255)

RECURSIVE decode_utf8(_)
decode_utf8(bin) ==
    IF bin = <<>> THEN "" ELSE Chr(Head(bin)) \o decode_utf8(Tail(bin))

\* base64.b64decode(d).decode('utf-8'): the text, or Raise for the TypeError
\* of a None, the binascii.Error or the UnicodeDecodeError
decode(d) ==
    IF d = None THEN Raise
    ELSE LET bin == b64decode(d)
         IN  IF bin = B64Error \/ BadUtf8(bin) THEN Raise ELSE decode_utf8(bin)

-----------------------------------------------------------------------------
(* The output formats.  A file is its first lines in order, then one line  *)
(* per domain in the order a set iterates (any), then what was appended.   *)

AliYun_DNS_SERVER == <<"223.5.5.5", "223.6.6.6", "2400:3200::1", "2400:3200:baba::1">>
BASE_DNS_SERVER == AliYun_DNS_SERVER
DEFAULT_SECURE_DNS_SERVER == "8.8.8.8"

format_raw(ds) ==
    [written |-> TRUE, head |-> <<>>, body |-> {d \o "\n" : d \in ds}, tail |-> ""]

format_adguardhome(ds, dns_server, extra) ==
    [written |-> TRUE,
     head |-> [k \in 1..Len(BASE_DNS_SERVER) |-> BASE_DNS_SERVER[k] \o "\n"],
     body |-> {"[/" \o d \o "/]" \o dns_server \o "\n" : d \in ds},
     tail |-> IF extra = Absent THEN "" ELSE extra]

\* contents ./extra.txt can have
ExtraFiles == {Absent, "[/x.y/]1.1.1.1\n"}

-----------------------------------------------------------------------------
(* The specification of GfwList.run on a fresh object, a step at a time.   *)

FileTexts == {"[AutoProxy 0.2.9]\n||a.b/x\n*.c.d\n", "||a.b/x\n", ""}

InitRun ==
    /\ pc = "run"
    /\ download \in BOOLEAN
    /\ gfwlist_fname \in {None, "", "gfwlist.txt"}
    /\ format \in {"raw", "adguardhome", "dnsmasq"}
    /\ gfwlist_file \in {Absent} \cup FileTexts
    /\ url_i = 1
    /\ contacted = <<>>
    /\ answers = <<>>
    /\ data = None
    /\ output_file = NoFile
    /\ arg = None
    /\ domains = {}
    /\ old_domains = {}
    /\ out = <<>>
    /\ ret = None

\* lines 235-242: where data comes from
RunStart ==
    /\ pc = "run"
    /\ IF download
       THEN /\ pc' = "fetch"
            /\ UNCHANGED <<data, out>>
       ELSE IF Truthy(gfwlist_fname)
       THEN IF gfwlist_file = Absent
            THEN /\ pc' = "run raised"
                 /\ UNCHANGED <<data, out>>
            ELSE /\ data' = gfwlist_file
                 /\ pc' = "save"
                 /\ UNCHANGED out
       ELSE /\ out' = Append(out, Msg("either download or gfwlist_fname must be specified"))
            /\ pc' = "run returned"
            /\ UNCHANGED data
    /\ UNCHANGED <<domains, arg, ret, old_domains, download, gfwlist_fname,
                   format, gfwlist_file, url_i, contacted, answers, output_file>>

\* fetch, one url of the loop
FetchUrl ==
    /\ pc = "fetch"
    /\ url_i <= Len(URLs)
    /\ \E answer \in Answers :
          LET d == fetch_url(answer)
          IN  /\ contacted' = Append(contacted, URLs[url_i])
              /\ answers' = Append(answers, answer)
              /\ out' = out \o FetchUrlOut(URLs[url_i], answer)
              /\ IF fetch_returns(d)
                 THEN data' = d /\ pc' = "decode" /\ UNCHANGED url_i
                 ELSE url_i' = url_i + 1 /\ UNCHANGED <<data, pc>>
    /\ UNCHANGED <<domains, arg, ret, old_domains, download, gfwlist_fname,
                   format, gfwlist_file, output_file>>

\* fetch, after the loop: returns None
FetchFail ==
    /\ pc = "fetch"
    /\ url_i > Len(URLs)
    /\ out' = Append(out, Msg("fail to download gfwlist"))
    /\ data' = None
    /\ pc' = "decode"
    /\ UNCHANGED <<domains, arg, ret, old_domains, download, gfwlist_fname,
                   format, gfwlist_file, url_i, contacted, answers, output_file>>

\* line 237
RunDecode ==
    /\ pc = "decode"
    /\ LET text == decode(data)
       IN  IF text = Raise
           THEN pc' = "run raised" /\ UNCHANGED data
           ELSE pc' = "save" /\ data' = text
    /\ UNCHANGED <<domains, out, arg, ret, old_domains, download, gfwlist_fname,
                   format, gfwlist_file, url_i, contacted, answers, output_file>>

\* lines 244-246
RunSave ==
    /\ pc = "save"
    /\ gfwlist_file' = IF download /\ Truthy(gfwlist_fname) THEN data
                       ELSE gfwlist_file
    /\ pc' = "parse"
    /\ UNCHANGED <<domains, out, arg, ret, old_domains, download, gfwlist_fname,
                   format, url_i, contacted, answers, data, output_file>>

\* line 248: what parse returns is dropped; ret keeps it for the record
RunParse ==
    /\ pc = "parse"
    /\ LET r == parse(data, domains)
       IN  /\ domains' = r.domains
           /\ out' = out \o r.out
           /\ ret' = r.ret
           /\ pc' = IF r.raised THEN "run raised" ELSE "add_extra_domains"
    /\ arg' = data
    /\ old_domains' = domains
    /\ UNCHANGED RunVars

\* line 249
RunAddExtraDomains ==
    /\ pc = "add_extra_domains"
    /\ domains' = add_extra_domains(domains)
    /\ out' = out \o ExtraOut
    /\ pc' = "format"
    /\ UNCHANGED <<arg, ret, old_domains, RunVars>>

\* lines 251-254
RunFormat ==
    /\ pc = "format"
    /\ \E extra \in ExtraFiles :
          output_file' =
              IF format = "raw" THEN format_raw(domains)
              ELSE IF format = "adguardhome"
              THEN format_adguardhome(domains, DEFAULT_SECURE_DNS_SERVER, extra)
              ELSE output_file
    /\ pc' = "run returned"
    /\ UNCHANGED <<domains, out, arg, ret, old_domains, download, gfwlist_fname,
                   format, gfwlist_file, url_i, contacted, answers, data>>

NextRun ==
    \/ RunStart
    \/ FetchUrl
    \/ FetchFail
    \/ RunDecode
    \/ RunSave
    \/ RunParse
    \/ RunAddExtraDomains
    \/ RunFormat

SpecRun == InitRun /\ [][NextRun]_vars

-----------------------------------------------------------------------------
(* What the claims speak of, stated without the patterns of the code.      *)

\* label(.label)+, each label of alphanumerics and hyphens starting with an
\* alphanumeric
IsCanonical(d) ==
    /\ Ch(d, 1) \in AlNum
    /\ \E k \in 1..Len(d) : Ch(d, k) = "."
    /\ \A k \in 1..Len(d) :
          \/ Ch(d, k) \in LabelCh
          \/ Ch(d, k) = "." /\ Ch(d, k + 1) \in AlNum

Contains(s, c) == \E k \in 1..Len(s) : Ch(s, k) = c

\* four runs of digits with a dot between each two
HasDottedQuad(s) ==
    LET dots == {k \in 1..Len(s) : Ch(s, k) = "."}
    IN  \E p \in dots, q \in dots, r \in dots :
            /\ p + 1 < q /\ q + 1 < r
            /\ Ch(s, p - 1) \in Digit
            /\ AllIn(s, p + 1, q - 1, Digit)
            /\ AllIn(s, q + 1, r - 1, Digit)
            /\ Ch(s, r + 1) \in Digit

\* the ignore conditions
Ignorable(line) ==
    \/ StartsWith(line, "!")
    \/ StartsWith(line, "@@")
    \/ Contains(line, "[")
    \/ HasDottedQuad(line)

\* the call of _parse_line of the line-level specification is over
LineDone == pc \in {"parse_line returned", "parse_line raised"}

\* a document parse must reject
InvalidDoc(text) == ~StartsWith(text, "[AutoProxy")

\* a mirror answered with content
Content(answer) == answer # Raise /\ answer # ""

-----------------------------------------------------------------------------
(* The claims.                                                             *)

\* C1: _parse_line never raises, whatever the line: the call returns, and it
\* either leaves the domain set as it was or adds exactly one domain. (The
\* code raises when the domain is found but the anchored wildcard pattern
\* does not match, as for a.a:1.)
C1_ParseLineNeverRaises ==
    LineDone =>
        /\ pc = "parse_line returned"
        /\ \/ domains = old_domains
           \/ \E d \in domains : d \notin old_domains /\ domains = old_domains \cup {d}

\* C2: when parse reported a validation failure, run writes no output file,
\* whatever the format. (The code drops what parse returns and goes on.)
C2_NoOutputAfterValidationFailure ==
    ret = False => ~output_file.written

\* C3: in download mode, when every mirror failed or was empty, run raises
\* nothing and writes no output file. (The code decodes the None.)
C3_AllMirrorsFailedNoRaise ==
    (download /\ url_i > Len(URLs)) =>
        (pc # "run raised" /\ ~output_file.written)

\* C4: parse of a document that is empty or whose first line does not start
\* with [AutoProxy returns False, classifies no line (prints only the
\* failure) and leaves the domain set as it was.
C4_InvalidDocumentRejected ==
    (pc \in {"parse returned", "parse raised"} /\ InvalidDoc(arg)) =>
        /\ pc = "parse returned"
        /\ ret = False
        /\ domains = old_domains
        /\ Len(out) = 1
        /\ out[1] \in {Msg("gfwlist is empty"),
                       Msg("gfwlist is not in AutoProxy format")}

C4_Witness ==
    /\ pc = "parse returned"
    /\ arg = "||a.b/x\n/a.b/\na.b:80\n"
    /\ ret = False
    /\ old_domains = {"c.d"}
    /\ domains = {"c.d"}

\* C5: a line that starts with ! or @@, or holds a [ or a dotted quad
\* anywhere, adds nothing to the domain set; a line that starts with !
\* prints nothing.
C5_IgnoredLinesAddNothing ==
    (LineDone /\ Ignorable(arg)) =>
        /\ pc = "parse_line returned"
        /\ domains = old_domains
        /\ StartsWith(arg, "!") => out = <<>>

C5_Witness ==
    /\ pc = "parse_line returned"
    /\ arg = "||a.a["
    /\ old_domains = {}
    /\ domains = {}

\* C6: a line [|| or | or nothing][http:// or https:// or nothing] D
\* [nothing, or / or %2F and any text], D canonical, that meets no ignore
\* condition adds exactly D.
C6_AnchoredDomainExtracted ==
    (LineDone /\ ~Ignorable(arg)) =>
        \A h \in {"", "|", "||"}, s \in {"", "http://", "https://"} :
            StartsWith(arg, h \o s) =>
                \A j \in (Len(h \o s) + 1)..Len(arg) :
                    LET D == SubSeq(arg, Len(h \o s) + 1, j)
                        rest == SubSeq(arg, j + 1, Len(arg))
                    IN  (/\ IsCanonical(D)
                         /\ rest = "" \/ StartsWith(rest, "/") \/ StartsWith(rest, "%2F"))
                        => /\ pc = "parse_line returned"
                           /\ domains = old_domains \cup {D}

C6_Witness ==
    /\ pc = "parse_line returned"
    /\ arg = "|https://a-1.b-%2Fa"
    /\ old_domains = {}
    /\ domains = {"a-1.b-"}

\* C7: for a canonical D no ignore condition catches, the lines *.D and D*
\* add exactly D: no * and no leading dot comes into the domain set.
C7_WildcardStripped ==
    LineDone =>
        \A D \in {SubSeq(arg, 3, Len(arg)), SubSeq(arg, 1, Len(arg) - 1)} :
            (/\ arg \in {"*." \o D, D \o "*"}
             /\ IsCanonical(D)
             /\ ~Ignorable(D))
            => /\ pc = "parse_line returned"
               /\ domains = old_domains \cup {D}

C7_Witness ==
    /\ pc = "parse_line returned"
    /\ arg = "*.a-1.b-"
    /\ old_domains = {}
    /\ domains = {"a-1.b-"}

\* C8: after any calls of parse and add_extra_domains every member of the
\* domain set is canonical (a dot inside, none at either end, no *, / or |,
\* no scheme), and no call removes a member.
C8_DomainsCanonicalAndGrowing ==
    /\ [](\A d \in domains :
            /\ IsCanonical(d)
            /\ Ch(d, 1) # "." /\ Ch(d, Len(d)) # "."
            /\ ~Contains(d, "*") /\ ~Contains(d, "/") /\ ~Contains(d, "|")
            /\ ~Contains(d, ":"))
    /\ [][domains \subseteq domains']_vars

C8_Witness ==
    /\ pc = "parse raised"
    /\ "a.b" \in domains
    /\ "c.d" \in domains
    /\ "google.com.hk" \in domains
    /\ "a.b" \notin old_domains

\* C9: fetch contacts the mirrors in the order of URLs, each at most once,
\* goes on after a mirror that raised or was empty, stops at the first one
\* with content and returns its data, and returns None only when all failed.
C9_FetchInOrderFirstContentWins ==
    /\ Len(contacted) <= Len(URLs)
    /\ Len(answers) = Len(contacted)
    /\ \A k \in 1..Len(contacted) : contacted[k] = URLs[k]
    /\ \A k \in 1..(Len(answers) - 1) : ~Content(answers[k])
    /\ pc = "fetch" => \A k \in 1..Len(answers) : ~Content(answers[k])
    /\ pc = "decode" =>
          \/ /\ answers # <<>>
             /\ Content(answers[Len(answers)])
             /\ data = answers[Len(answers)]
          \/ /\ Len(contacted) = Len(URLs)
             /\ \A k \in 1..Len(answers) : ~Content(answers[k])
             /\ data = None

C9_Witness ==
    /\ pc = "decode"
    /\ Len(contacted) = 3
    /\ answers[1] = Raise
    /\ answers[2] = ""
    /\ data = "fHxhLmIveAo="

\* C10: a line that begins with / never adds a domain and prints exactly the
\* one request to add the domain by hand; the "regex rule ... -> domain"
\* line is never printed.
C10_RegexRuleNeverExtracted ==
    /\ \A k \in 1..Len(out) : out[k][1] # "regex rule"
    /\ (LineDone /\ StartsWith(arg, "/")) =>
          /\ pc = "parse_line returned"
          /\ domains = old_domains
          /\ out = <<Manual(arg)>>

C10_Witness ==
    /\ pc = "parse_line returned"
    /\ arg = "/http://a.a/a.b"
    /\ out = <<Manual("/http://a.a/a.b")>>
    /\ domains = old_domains

=============================================================================
